---- MODULE Spec2Model ----
(***************************************************************************)
(* State-machine model of the LLM App Developer service: the /submit       *)
(* gateway (main.py), the round 1 / round 2 background handlers            *)
(* (src/round1.py, src/round2.py), the generator's provider fallback       *)
(* (src/push_llm_code.py) and the repository-name derivation               *)
(* (src/utils.py, src/create_repo.py).                                     *)
(*                                                                         *)
(* Strings that the code inspects character by character (task ids,        *)
(* repository names) are sequences of one-character strings.               *)
(***************************************************************************)
EXTENDS Integers, Sequences, FiniteSets, TLC

VARIABLES
    student_secret, \* os.getenv("STUDENT_SECRET", "")
    loop,           \* the coroutine that holds the asyncio event loop
    req,            \* req[r]: the TaskRequest held by connection r
    resp,           \* resp[r]: what submit returned (or raised) for it
    sent,           \* sent[r]: the response has been written to the client
    unit,           \* unit[r]: position and locals of the background handler
    effects,        \* effects[r]: outward effects made on behalf of req[r]
    repos,          \* repository names that exist on the hosting platform
    task_id,        \* name derivation: the task id under study
    r1_name,        \* name derivation: name round 1 creates (<<>> = not run)
    r2_name,        \* name derivation: name round 2 resolves (<<>> = not run)
    response,       \* parser: the provider's response text, as tokens
    files,          \* parser: the file set, name -> content
    parser,         \* parser: "idle", "response", "parsed", "reprocessed"
    origin,         \* publisher: the commits of the remote's main branch
    pub,            \* publisher: position and locals of push_code_to_repo
    calls,          \* publisher: what each finished call returned
    hub,            \* platform: repositories, creations, sites served
    job,            \* platform: job[u], one run's calls to the platform
    work            \* directories: work[w], one unit and the paths it touched

gwVars   == <<student_secret, loop, req, resp, sent, unit, effects, repos>>
nameVars == <<task_id, r1_name, r2_name>>
parseVars == <<response, files, parser>>
vars     == <<student_secret, loop, req, resp, sent, unit, effects, repos,
              task_id, r1_name, r2_name, response, files, parser,
              origin, pub, calls, hub, job, work>>
pubVars  == <<origin, pub, calls>>
hubVars  == <<hub, job>>
dirVars  == <<work>>

\* What the gateway and its handlers, and what the name derivation, leave alone.
restOfGateway   == <<nameVars, parseVars, pubVars, hubVars, dirVars>>
restOfNames     == <<gwVars, parseVars, pubVars, hubVars, dirVars>>
restOfParser    == <<gwVars, nameVars, pubVars, hubVars, dirVars>>
restOfPublisher == <<gwVars, nameVars, parseVars, hubVars, dirVars>>
restOfHub       == <<gwVars, nameVars, parseVars, pubVars, dirVars>>
restOfDirs      == <<gwVars, nameVars, parseVars, pubVars, hubVars>>

(***************************************************************************)
(* Characters and string primitives (Python str methods, re.sub).          *)
(***************************************************************************)
\* Longest task id enumerated exhaustively.
MaxLen == 2

Chars == {"a", "A", "1", "_", "-", "@"}

\* str.lower() on one character.
Lower(c) == IF c = "A" THEN "a" ELSE c

\* The class [a-zA-Z0-9_-] of sanitize_repo_name's first re.sub.
IsRepoChar(c) == c \in {"a", "A", "1", "_", "-"}

StrLower(s) == [i \in 1..Len(s) |-> Lower(s[i])]

\* str.replace(from, to) for one-character from/to.
StrReplace(s, from, to) == [i \in 1..Len(s) |-> IF s[i] = from THEN to ELSE s[i]]

\* s[:n]
Take(s, n) == SubSeq(s, 1, IF Len(s) < n THEN Len(s) ELSE n)

RECURSIVE LStrip(_, _)
LStrip(s, c) == IF s # <<>> /\ Head(s) = c THEN LStrip(Tail(s), c) ELSE s

RECURSIVE RStrip(_, _)
RStrip(s, c) ==
    IF s # <<>> /\ s[Len(s)] = c THEN RStrip(SubSeq(s, 1, Len(s) - 1), c) ELSE s

\* str.strip(c)
Strip(s, c) == RStrip(LStrip(s, c), c)

\* re.sub(r'-+', '-', s)
RECURSIVE CollapseHyphens(_)
CollapseHyphens(s) ==
    IF Len(s) < 2 THEN s
    ELSE IF s[1] = "-" /\ s[2] = "-" THEN CollapseHyphens(Tail(s))
    ELSE <<s[1]>> \o CollapseHyphens(Tail(s))

\* hashlib.sha256(s.encode()).hexdigest()[:8]: a digest is an abstract value
\* that is a function of the hashed text alone, distinct texts giving distinct
\* digests; it is made of lowercase hex digits only.
sha256_hex8(s) == [sha256_of |-> s]

(***************************************************************************)
(* Repository names.  A name f"{prefix}-{digest}" is the record of its two *)
(* parts.                                                                  *)
(***************************************************************************)
TruncLen == 15

sanitize_repo_name(name) ==
    LET replaced  == [i \in 1..Len(name) |->
                        IF IsRepoChar(name[i]) THEN name[i] ELSE "-"]
        stripped  == Strip(replaced, "-")
        collapsed == CollapseHyphens(stripped)
    IN  StrLower(collapsed)

derive_repo_name_from_task(t) ==
    LET sanitized == sanitize_repo_name(t)
        task_hash == sha256_hex8(sanitized)
    IN  [prefix |-> Take(sanitized, TruncLen), digest |-> task_hash]

\* repo_name.lower().replace("_", "-") applied to f"{prefix}-{digest}": the
\* digest's hex digits are left as they are.
LowerHyphenate(n) ==
    [prefix |-> StrReplace(StrLower(n.prefix), "_", "-"), digest |-> n.digest]

\* The name create_github_repo puts in its create request.
create_repo_name(repo_name) == LowerHyphenate(repo_name)

\* The name round2 derives when the request carries no repo_url.
round2_repo_name(t) ==
    LowerHyphenate([prefix |-> Take(t, TruncLen), digest |-> sha256_hex8(t)])

\* Task ids: every string over Chars up to MaxLen, and ids that are longer
\* than the truncation length.
RECURSIVE StringsUpTo(_)
StringsUpTo(n) ==
    IF n = 0 THEN {<<>>}
    ELSE LET shorter == StringsUpTo(n - 1)
         IN  shorter \cup {Append(s, c) : s \in shorter, c \in Chars}

Repeat(c, n) == [i \in 1..n |-> c]

LongIds == { Repeat("a", TruncLen + 1),
             Repeat("a", TruncLen) \o <<"_", "A">>,
             <<"-">> \o Repeat("a", TruncLen + 1),
             Repeat("a", TruncLen - 1) \o <<"-", "a">> }

TaskIds == StringsUpTo(MaxLen) \cup LongIds

(***************************************************************************)
(* Name derivation as a state machine: one task id, derived once by each   *)
(* round.                                                                  *)
(***************************************************************************)
\* round1.py: derive_repo_name_from_task, then create_github_repo.
Round1Derive ==
    /\ r1_name = <<>>
    /\ r1_name' = <<create_repo_name(derive_repo_name_from_task(task_id))>>
    /\ UNCHANGED <<task_id, r2_name>>
    /\ UNCHANGED restOfNames

\* round2.py: the request has no repo_url.
Round2Derive ==
    /\ r2_name = <<>>
    /\ r2_name' = <<round2_repo_name(task_id)>>
    /\ UNCHANGED <<task_id, r1_name>>
    /\ UNCHANGED restOfNames

(***************************************************************************)
(* The gateway and the background handlers.                                *)
(***************************************************************************)
\* Connections that may carry a request at the same time.
Slots == {"c1", "c2"}

Idle == "idle"

\* The requester identity each client sends as its email field.
EmailOf(r) == IF r = "c1" THEN "u1@example.com" ELSE "u2@example.com"

\* Values of the STUDENT_SECRET environment variable: unset/empty, or set.
ConfiguredSecrets == {"", "s3cret"}

\* Secrets a request may carry.
ProvidedSecrets == {"", "s3cret", "wrong"}

\* Task ids of submitted requests.
SubmittedTasks == {<<"a">>, <<"A">>}

\* repo_url of a request: absent (None), or the repository of round 1.
RepoRefs(t) == {<<>>, <<create_repo_name(derive_repo_name_from_task(t))>>}

NoReq  == [email |-> "", secret |-> "", task |-> <<>>, round |-> 0,
           nonce |-> "", repo_url |-> <<>>]
NoResp == [status |-> 0, usercode |-> ""]
NoUnit == [pc |-> "none", handler |-> "none", app_code |-> "none",
           calls |-> <<>>, outcomes |-> <<>>, repo |-> <<>>,
           commit_sha |-> "none", polls |-> 0, elapsed |-> 0,
           polled_ok |-> FALSE, ready |-> "unset", attempt |-> 0,
           instant |-> TRUE,
           posts |-> <<>>, bodies |-> <<>>, sleeps |-> <<>>, error |-> "none",
           raised |-> FALSE]

\* Variant: the comparison alone, without the check that a secret is set.
validate_secret_unguarded(provided_secret) == provided_secret = student_secret

\* Variant: any non-empty secret is accepted.
validate_secret_nonempty(provided_secret) == provided_secret # ""

\* validate_secrets.py
validate_secret(provided_secret) ==
    IF student_secret = "" THEN FALSE ELSE provided_secret = student_secret

\* ImmediateResponse(usercode=email), HTTP 200.
ImmediateResponse(email) == [status |-> 200, usercode |-> email]

\* HTTPException(status_code=...)
HTTPException(code) == [status |-> code, usercode |-> ""]

\* Variant: the round 1 handler is queued whatever the round.
add_task_round1(handler) == [NoUnit EXCEPT !.pc = "queued", !.handler = "round1"]

\* background_tasks.add_task(handler, data): the handler is queued on the
\* response and is started only once the response has been sent.
add_task(handler) == [NoUnit EXCEPT !.pc = "queued", !.handler = handler]

\* The rounds a client may send: below, inside and above the range.
Rounds == {0, 1, 2, 3}

\* Variant: a request body with no constraint on round.
round_unconstrained(round_num) == TRUE

\* TaskRequest.round: int = Field(..., ge=1, le=2)
round_in_range(round_num) == round_num >= 1 /\ round_num <= 2

\* The framework's answer to a body that fails validation: HTTP 422; submit
\* is not called.
RequestValidationError == [status |-> 422, usercode |-> ""]

\* POST /submit: the body is validated into a TaskRequest, then the whole
\* handler runs (it never awaits).
Submit(r) ==
    /\ loop = Idle
    /\ req[r] = NoReq
    /\ \E email \in {EmailOf(r)}, secret \in ProvidedSecrets, t \in SubmittedTasks,
          round_num \in Rounds :
         \E repo_url \in (IF round_num = 2 THEN RepoRefs(t) ELSE {<<>>}) :
            /\ req' = [req EXCEPT ![r] =
                         [email |-> email, secret |-> secret, task |-> t,
                          round |-> round_num,
                          nonce |-> IF r = "c1" THEN "n1" ELSE "n2",
                          repo_url |-> repo_url]]
            /\ IF ~round_in_range(round_num)
               THEN /\ resp' = [resp EXCEPT ![r] = RequestValidationError]
                    /\ UNCHANGED unit
               ELSE IF ~validate_secret(secret)
               THEN /\ resp' = [resp EXCEPT ![r] = HTTPException(401)]
                    /\ UNCHANGED unit
               ELSE IF round_num = 1
               THEN /\ unit' = [unit EXCEPT ![r] = add_task("round1")]
                    /\ resp' = [resp EXCEPT ![r] = ImmediateResponse(email)]
               ELSE IF round_num = 2
               THEN /\ unit' = [unit EXCEPT ![r] = add_task("round2")]
                    /\ resp' = [resp EXCEPT ![r] = ImmediateResponse(email)]
               ELSE /\ resp' = [resp EXCEPT ![r] = HTTPException(400)]
                    /\ UNCHANGED unit
    /\ UNCHANGED <<student_secret, loop, sent, effects, repos>>
    /\ UNCHANGED restOfGateway

\* The response returned by submit is written to the client.
SendResponse(r) ==
    /\ loop = Idle
    /\ resp[r] # NoResp
    /\ ~sent[r]
    /\ sent' = [sent EXCEPT ![r] = TRUE]
    /\ UNCHANGED <<student_secret, loop, req, resp, unit, effects, repos>>
    /\ UNCHANGED restOfGateway

\* Variant: the handler is started without waiting for the response.
StartedAtOnce(r) == TRUE

\* A queued background task runs after the response: submit returns the
\* response with the task attached instead of awaiting the handler.
ResponseSentFirst(r) == sent[r]

\* The background handler begins and takes the event loop.
RunBackground(r) ==
    /\ loop = Idle
    /\ unit[r].pc = "queued"
    /\ ResponseSentFirst(r)
    /\ loop' = r
    /\ unit' = [unit EXCEPT ![r].pc = "received"]
    /\ UNCHANGED <<student_secret, req, resp, sent, effects, repos>>
    /\ UNCHANGED restOfGateway

(***************************************************************************)
(* round1 / round2: the handler body, one action per call it makes.  The   *)
(* handler is a coroutine whose only await is the provider call inside     *)
(* generate_app_with_llm; every other call (requests, git, time.sleep)     *)
(* blocks, so the handler keeps the event loop across it.                  *)
(***************************************************************************)
\* Variant: the exception is logged and the handler returns, no notification.
OnExceptionSilent(u, where) == [u EXCEPT !.pc = "done", !.error = where]

\* The except clause of the handler: any exception raised in the try body
\* leads to the error notification.
OnException(u, where) == [u EXCEPT !.pc = "error_post", !.error = where]

\* Where the handler is in the spec's task state machine.
Stage(u) ==
    CASE u.pc = "none" -> "NoTask"
      [] u.pc \in {"queued", "received", "clone"} -> "Received"
      [] u.pc \in {"generate", "await_openai", "fallback", "await_gemini"}
            -> "Generating"
      [] u.pc \in {"create_repo", "push", "pages"} -> "Publishing"
      [] u.pc \in {"poll", "poll_sleep", "verified"} -> "Verifying"
      [] u.pc \in {"post", "backoff"} -> "Notifying"
      [] u.pc = "error_post" -> "Failed"
      [] OTHER -> "Done"

\* Locals, working directory, attachment download; round 2 also resolves the
\* repository (the given repo_url, or the name derived from the task id).
Receive(r) ==
    /\ loop = r
    /\ unit[r].pc = "received"
    /\ \E ok \in BOOLEAN :
         LET u == unit[r]
             resolved == IF u.handler = "round2"
                         THEN [u EXCEPT !.repo =
                                 IF req[r].repo_url # <<>>
                                 THEN req[r].repo_url
                                 ELSE <<round2_repo_name(req[r].task)>>]
                         ELSE u
         IN  unit' = [unit EXCEPT ![r] =
                 IF ~ok THEN OnException(resolved, "Received")
                 ELSE [resolved EXCEPT !.pc =
                         IF u.handler = "round2" THEN "clone" ELSE "generate"]]
    /\ UNCHANGED <<student_secret, loop, req, resp, sent, effects, repos>>
    /\ UNCHANGED restOfGateway

\* clone_existing_repo(repo_url, task): git clone fails when the repository
\* does not exist, and may fail when it does.
CloneExisting(r) ==
    /\ loop = r
    /\ unit[r].pc = "clone"
    /\ \E ok \in BOOLEAN :
         LET u == unit[r]
             cloned == ok /\ u.repo[1] \in repos
         IN  unit' = [unit EXCEPT ![r] =
                 IF cloned THEN [u EXCEPT !.pc = "generate"]
                 ELSE OnException(u, "Received")]
    /\ UNCHANGED <<student_secret, loop, req, resp, sent, effects, repos>>
    /\ UNCHANGED restOfGateway

\* The statement after generate_app_with_llm returns.
AfterGenerate(u) == IF u.handler = "round1" THEN "create_repo" ELSE "push"

\* Variant: no fallback, OpenAI's failure is raised as the generation error.
generate_without_fallback(u, provider, ok) ==
    LET v == [u EXCEPT !.outcomes = Append(@, IF ok THEN "ok" ELSE "fail")]
    IN  IF ok THEN [v EXCEPT !.app_code = provider,
                             !.pc = IF u.handler = "round1" THEN "create_repo"
                                    ELSE "push"]
        ELSE [v EXCEPT !.pc = "error_post", !.error = "Generating"]

\* Variant: Gemini's failure is logged and the handler goes on with no files.
generate_ignoring_failure(u, provider, ok) ==
    LET v == [u EXCEPT !.outcomes = Append(@, IF ok THEN "ok" ELSE "fail")]
    IN  IF provider = "openai"
        THEN IF ok THEN [v EXCEPT !.app_code = "openai", !.pc = AfterGenerate(u)]
             ELSE [v EXCEPT !.pc = "fallback"]
        ELSE IF ok THEN [v EXCEPT !.app_code = "gemini", !.pc = AfterGenerate(u)]
             ELSE [v EXCEPT !.pc = AfterGenerate(u)]

\* generate_app_with_llm: what follows a provider's result.  OpenAI's files
\* are returned at once; its failure falls through to Gemini; Gemini's files
\* are returned; Gemini's failure raises the generation error.
generate_app_with_llm(u, provider, ok) ==
    LET v == [u EXCEPT !.outcomes = Append(@, IF ok THEN "ok" ELSE "fail")]
    IN  IF provider = "openai"
        THEN IF ok THEN [v EXCEPT !.app_code = "openai", !.pc = AfterGenerate(u)]
             ELSE [v EXCEPT !.pc = "fallback"]
        ELSE IF ok THEN [v EXCEPT !.app_code = "gemini", !.pc = AfterGenerate(u)]
             ELSE OnException(v, "Generating")

\* _generate_with_openai / _generate_with_gemini up to the await: the call
\* raises at once (no API key), or awaits agent.run and yields the loop.
CallProvider(r) ==
    /\ loop = r
    /\ unit[r].pc \in {"generate", "fallback"}
    /\ LET u == unit[r]
           provider == IF u.pc = "generate" THEN "openai" ELSE "gemini"
           called == [u EXCEPT !.calls = Append(@, provider)]
       IN  \/ /\ unit' = [unit EXCEPT ![r] =
                    generate_app_with_llm(called, provider, FALSE)]
              /\ UNCHANGED loop
           \/ /\ unit' = [unit EXCEPT ![r] = [called EXCEPT !.pc =
                    IF provider = "openai" THEN "await_openai"
                    ELSE "await_gemini"]]
              /\ loop' = Idle
    /\ UNCHANGED <<student_secret, req, resp, sent, effects, repos>>
    /\ UNCHANGED restOfGateway

\* agent.run completes (a response that parses, or an exception) and the
\* handler resumes on the event loop.
ResumeProvider(r) ==
    /\ loop = Idle
    /\ unit[r].pc \in {"await_openai", "await_gemini"}
    /\ \E ok \in BOOLEAN :
         LET u == unit[r]
             provider == IF u.pc = "await_openai" THEN "openai" ELSE "gemini"
         IN  unit' = [unit EXCEPT ![r] = generate_app_with_llm(u, provider, ok)]
    /\ loop' = r
    /\ UNCHANGED <<student_secret, req, resp, sent, effects, repos>>
    /\ UNCHANGED restOfGateway

\* round1: derive the name and create_github_repo(repo_name, email): the
\* create request makes the repository, or answers "name already exists" and
\* the existing one is fetched; any other answer raises.
CreateRepo(r) ==
    /\ loop = r
    /\ unit[r].pc = "create_repo"
    /\ \E ok \in BOOLEAN :
         LET u == unit[r]
             repo_name == create_repo_name(
                              derive_repo_name_from_task(req[r].task))
         IN  IF ~ok
             THEN /\ unit' = [unit EXCEPT ![r] = OnException(u, "Publishing")]
                  /\ UNCHANGED <<repos, effects>>
             ELSE /\ unit' = [unit EXCEPT ![r] =
                        [u EXCEPT !.repo = <<repo_name>>, !.pc = "push"]]
                  /\ repos' = repos \cup {repo_name}
                  /\ effects' = IF repo_name \in repos THEN effects
                                ELSE [effects EXCEPT ![r] = @ \cup {"repo"}]
    /\ UNCHANGED <<student_secret, loop, req, resp, sent>>
    /\ UNCHANGED restOfGateway

\* push_code_to_repo with a failed push passed over in silence.
PushCodeSilent(r) ==
    /\ loop = r
    /\ unit[r].pc = "push"
    /\ \E result \in {"committed", "unchanged", "failed"} :
         LET u == unit[r]
             next == IF u.handler = "round1" THEN "pages" ELSE "poll"
         IN  /\ unit' = [unit EXCEPT ![r] =
                   [u EXCEPT !.commit_sha =
                                 IF result = "unchanged" THEN "head" ELSE "new",
                             !.pc = next]]
             /\ effects' = [effects EXCEPT ![r] =
                   IF result = "committed" THEN @ \cup {"commit"} ELSE @]
    /\ UNCHANGED <<student_secret, loop, req, resp, sent, repos>>
    /\ UNCHANGED restOfGateway

\* push_code_to_repo: a commit is made and pushed, or nothing changed and the
\* head is returned, or a git / API step raises.
PushCode(r) ==
    /\ loop = r
    /\ unit[r].pc = "push"
    /\ \E result \in {"committed", "unchanged", "failed"} :
         LET u == unit[r]
             next == IF u.handler = "round1" THEN "pages" ELSE "poll"
         IN  CASE result = "failed" ->
                    /\ unit' = [unit EXCEPT ![r] = OnException(u, "Publishing")]
                    /\ UNCHANGED effects
               [] result = "unchanged" ->
                    /\ unit' = [unit EXCEPT ![r] =
                          [u EXCEPT !.commit_sha = "head", !.pc = next]]
                    /\ UNCHANGED effects
               [] OTHER ->
                    /\ unit' = [unit EXCEPT ![r] =
                          [u EXCEPT !.commit_sha = "new", !.pc = next]]
                    /\ effects' = [effects EXCEPT ![r] = @ \cup {"commit"}]
    /\ UNCHANGED <<student_secret, loop, req, resp, sent, repos>>
    /\ UNCHANGED restOfGateway

\* round1: enable_github_pages(owner, repo, token) returns the site URL or
\* raises.
EnablePages(r) ==
    /\ loop = r
    /\ unit[r].pc = "pages"
    /\ \E ok \in BOOLEAN :
         unit' = [unit EXCEPT ![r] =
             IF ok THEN [unit[r] EXCEPT !.pc = "poll"]
             ELSE OnException(unit[r], "Publishing")]
    /\ UNCHANGED <<student_secret, loop, req, resp, sent, effects, repos>>
    /\ UNCHANGED restOfGateway

(***************************************************************************)
(* wait_for_pages_deployment(pages_url, max_wait=120).  elapsed is         *)
(* time.time() - start; polls is the attempt counter; instant records that *)
(* no requests.get of this wait has taken any time so far.                 *)
(***************************************************************************)
max_wait == 120

\* time.sleep(10) between polls.
PollInterval == 10

\* requests.get(pages_url, timeout=10): a poll returns at once or takes up
\* to the timeout.
PollTimeout == 10

PollDurations == {0, PollTimeout}

PollOutcomes == {"200", "404", "neterr"}

\* The attempt counter is only logged; it is tracked up to this value.
MaxPollsTracked == 14

\* Variant: the loop also runs when exactly max_wait has elapsed.
BudgetLeftInclusive(u) == u.elapsed <= max_wait

\* The loop condition: time.time() - start < max_wait.
BudgetLeft(u) == u.elapsed < max_wait

\* Variant: a network error during a poll is not caught.
poll_once_uncaught(u, duration, outcome) ==
    LET v == [u EXCEPT !.polls = IF @ < MaxPollsTracked THEN @ + 1 ELSE @,
                       !.elapsed = @ + duration,
                       !.instant = @ /\ duration = 0]
    IN  IF outcome = "200"
        THEN [v EXCEPT !.polled_ok = TRUE, !.ready = "True", !.pc = "verified"]
        ELSE IF outcome = "neterr"
        THEN [v EXCEPT !.pc = "error_post", !.error = "Verifying"]
        ELSE [v EXCEPT !.pc = "poll_sleep"]

\* One pass of the loop body up to the sleep: a 200 returns True; any other
\* status and any exception are swallowed and the loop goes on to sleep.
poll_once(u, duration, outcome) ==
    LET v == [u EXCEPT !.polls = IF @ < MaxPollsTracked THEN @ + 1 ELSE @,
                       !.elapsed = @ + duration,
                       !.instant = @ /\ duration = 0]
    IN  IF outcome = "200"
        THEN [v EXCEPT !.polled_ok = TRUE, !.ready = "True", !.pc = "verified"]
        ELSE [v EXCEPT !.pc = "poll_sleep"]

\* Variant: the loop polls again without sleeping.
poll_again_at_once(u) == [u EXCEPT !.pc = "poll"]

\* time.sleep(10) at the end of the loop body.
sleep_between_polls(u) ==
    [u EXCEPT !.elapsed = @ + PollInterval, !.pc = "poll"]

PollPages(r) ==
    /\ loop = r
    /\ unit[r].pc = "poll"
    /\ BudgetLeft(unit[r])
    /\ \E duration \in PollDurations, outcome \in PollOutcomes :
         unit' = [unit EXCEPT ![r] = poll_once(unit[r], duration, outcome)]
    /\ UNCHANGED <<student_secret, loop, req, resp, sent, effects, repos>>
    /\ UNCHANGED restOfGateway

PollSleep(r) ==
    /\ loop = r
    /\ unit[r].pc = "poll_sleep"
    /\ unit' = [unit EXCEPT ![r] = sleep_between_polls(unit[r])]
    /\ UNCHANGED <<student_secret, loop, req, resp, sent, effects, repos>>
    /\ UNCHANGED restOfGateway

\* The loop ends with the budget used up: return False.
PollGiveUp(r) ==
    /\ loop = r
    /\ unit[r].pc = "poll"
    /\ ~BudgetLeft(unit[r])
    /\ unit' = [unit EXCEPT ![r] = [unit[r] EXCEPT !.ready = "False",
                                                   !.pc = "verified"]]
    /\ UNCHANGED <<student_secret, loop, req, resp, sent, effects, repos>>
    /\ UNCHANGED restOfGateway

\* Back in the handler: the result is only logged, the deadline is only
\* logged, and the success notification is built.  The locals of
\* wait_for_pages_deployment are gone.
AfterVerify(r) ==
    /\ loop = r
    /\ unit[r].pc = "verified"
    /\ unit' = [unit EXCEPT ![r] = [unit[r] EXCEPT !.polls = 0, !.elapsed = 0,
                                                   !.instant = TRUE,
                                                   !.polled_ok = FALSE,
                                                   !.pc = "post"]]
    /\ UNCHANGED <<student_secret, loop, req, resp, sent, effects, repos>>
    /\ UNCHANGED restOfGateway

(***************************************************************************)
(* The notification loop: for attempt in range(max_retries).               *)
(***************************************************************************)
max_retries == 4

\* A callback POST: status 200, another status, or a timeout / network error.
PostOutcomes == {"200", "500", "neterr"}

\* Variant: running out of attempts raises into the handler's except clause.
after_post_raising(u, outcome) ==
    LET v == [u EXCEPT !.posts = Append(@, [kind |-> "success",
                                            outcome |-> outcome])]
    IN  IF outcome = "200" THEN [v EXCEPT !.pc = "done"]
        ELSE IF u.attempt < max_retries - 1 THEN [v EXCEPT !.pc = "backoff"]
        ELSE [v EXCEPT !.pc = "error_post", !.error = "Notifying"]

\* Variant: a 200 does not break out of the loop.
after_post_no_break(u, outcome) ==
    LET v == [u EXCEPT !.posts = Append(@, [kind |-> "success",
                                            outcome |-> outcome])]
    IN  IF u.attempt < max_retries - 1 THEN [v EXCEPT !.pc = "backoff"]
        ELSE [v EXCEPT !.pc = "done"]

\* What follows one POST of the success payload: a 200 breaks out of the
\* loop; otherwise the loop sleeps when attempts remain, and ends (for/else:
\* log only) when they do not.
after_post(u, outcome) ==
    LET v == [u EXCEPT !.posts = Append(@, [kind |-> "success",
                                            outcome |-> outcome])]
    IN  IF outcome = "200" THEN [v EXCEPT !.pc = "done"]
        ELSE IF u.attempt < max_retries - 1 THEN [v EXCEPT !.pc = "backoff"]
        ELSE [v EXCEPT !.pc = "done"]

\* The same body with the round written out as 1.
notification_round1(r) ==
    [task |-> req[r].task, round |-> 1, nonce |-> req[r].nonce,
     repo_url |-> unit[r].repo, commit_sha |-> unit[r].commit_sha,
     pages_url |-> [site_of |-> unit[r].repo]]

\* The success body: the request's task, round and nonce, the repository,
\* the id push_code_to_repo returned and the site of that repository.
notification(r) ==
    [task |-> req[r].task, round |-> req[r].round, nonce |-> req[r].nonce,
     repo_url |-> unit[r].repo, commit_sha |-> unit[r].commit_sha,
     pages_url |-> [site_of |-> unit[r].repo]]

PostNotification(r) ==
    /\ loop = r
    /\ unit[r].pc = "post"
    /\ \E outcome \in PostOutcomes :
         unit' = [unit EXCEPT ![r] =
                     [after_post(unit[r], outcome) EXCEPT
                          !.bodies = Append(@, notification(r))]]
    /\ effects' = [effects EXCEPT ![r] = @ \cup {"post"}]
    /\ UNCHANGED <<student_secret, loop, req, resp, sent, repos>>
    /\ UNCHANGED restOfGateway

\* delay = 2 ** attempt; time.sleep(delay); next attempt.
Backoff(r) ==
    /\ loop = r
    /\ unit[r].pc = "backoff"
    /\ unit' = [unit EXCEPT ![r] =
                  [unit[r] EXCEPT !.sleeps = Append(@, 2 ^ unit[r].attempt),
                                  !.attempt = @ + 1, !.pc = "post"]]
    /\ UNCHANGED <<student_secret, loop, req, resp, sent, effects, repos>>
    /\ UNCHANGED restOfGateway

\* The except clause: one POST of the error payload inside its own
\* try/except; its status is not looked at and its exception is logged.
error_post(u, outcome) ==
    [u EXCEPT !.posts = Append(@, [kind |-> "error", outcome |-> outcome]),
              !.pc = "done"]

\* The error body: the request's task, round and nonce, and str(e).
error_notification(r) ==
    [task |-> req[r].task, round |-> req[r].round, nonce |-> req[r].nonce,
     status |-> "error", error |-> unit[r].error]

PostError(r) ==
    /\ loop = r
    /\ unit[r].pc = "error_post"
    /\ \E outcome \in PostOutcomes :
         unit' = [unit EXCEPT ![r] =
                     [error_post(unit[r], outcome) EXCEPT
                          !.bodies = Append(@, error_notification(r))]]
    /\ effects' = [effects EXCEPT ![r] = @ \cup {"post"}]
    /\ UNCHANGED <<student_secret, loop, req, resp, sent, repos>>
    /\ UNCHANGED restOfGateway

\* The handler returns: its locals are gone and the event loop is free.
Finish(r) ==
    /\ loop = r
    /\ unit[r].pc = "done"
    /\ unit' = [unit EXCEPT ![r] = NoUnit]
    /\ loop' = Idle
    /\ UNCHANGED <<student_secret, req, resp, sent, effects, repos>>
    /\ UNCHANGED restOfGateway

\* The request is over for the client: response delivered, no handler left.
Release(r) ==
    /\ req[r] # NoReq
    /\ sent[r]
    /\ unit[r].pc = "none"
    /\ req' = [req EXCEPT ![r] = NoReq]
    /\ resp' = [resp EXCEPT ![r] = NoResp]
    /\ sent' = [sent EXCEPT ![r] = FALSE]
    /\ effects' = [effects EXCEPT ![r] = {}]
    /\ UNCHANGED <<student_secret, loop, unit, repos>>
    /\ UNCHANGED restOfGateway

(***************************************************************************)
(* The generator's response parser.  A response is a sequence of tokens:   *)
(* an opening tag <FILE name="n">, the closing tag </FILE>, a newline, a   *)
(* run of plain text, and a run of text that begins with "<" and is no     *)
(* FILE tag (a <title> element, or a closing tag the model misspelt).      *)
(***************************************************************************)
MaxTokens == 6

FileNames == {"index.html", "LICENSE", "README.md"}

OpenTag(n) == [kind |-> "open", text |-> n]
CloseTag   == [kind |-> "close", text |-> "</FILE>"]
Newline    == [kind |-> "nl", text |-> "\n"]
PlainText  == [kind |-> "text", text |-> "x"]
TitleText  == [kind |-> "markup", text |-> "<title>T</title>"]

Tokens == {OpenTag(n) : n \in FileNames}
              \cup {CloseTag, Newline, PlainText, TitleText}

Responses == UNION {[1..k -> Tokens] : k \in 0..MaxTokens}

SetMin(S) == CHOOSE i \in S : \A j \in S : i <= j

\* str.strip(): the only whitespace of a token sequence is its newlines.
RECURSIVE LTrim(_)
LTrim(s) == IF s # <<>> /\ Head(s) = Newline THEN LTrim(Tail(s)) ELSE s

RECURSIVE RTrim(_)
RTrim(s) ==
    IF s # <<>> /\ s[Len(s)] = Newline
    THEN RTrim(SubSeq(s, 1, Len(s) - 1))
    ELSE s

Trim(s) == RTrim(LTrim(s))

\* files[filename] = cleaned, under the guard "if cleaned".
StoreFile(fs, filename, content) ==
    IF content # <<>> THEN (filename :> content) @@ fs ELSE fs

\* The same search with a greedy group: up to the last closing tag.
RECURSIVE findall_greedy(_, _)
findall_greedy(s, pos) ==
    LET opens == {i \in pos..Len(s) :
                     /\ s[i].kind = "open"
                     /\ \E j \in (i + 1)..Len(s) : s[j] = CloseTag}
    IN  IF opens = {} THEN <<>>
        ELSE LET i == SetMin(opens)
                 j == CHOOSE k \in (i + 1)..Len(s) :
                          /\ s[k] = CloseTag
                          /\ \A l \in (k + 1)..Len(s) : s[l] # CloseTag
             IN  <<[filename |-> s[i].text,
                    content  |-> SubSeq(s, i + 1, j - 1)]>>

\* re.findall(pattern, text, DOTALL | IGNORECASE) from position pos on: the
\* leftmost opening tag that has a closing tag after it, then lazily up to
\* the first closing tag; the search goes on behind that closing tag.
RECURSIVE findall(_, _)
findall(s, pos) ==
    LET opens == {i \in pos..Len(s) :
                     /\ s[i].kind = "open"
                     /\ \E j \in (i + 1)..Len(s) : s[j] = CloseTag}
    IN  IF opens = {} THEN <<>>
        ELSE LET i == SetMin(opens)
                 j == SetMin({k \in (i + 1)..Len(s) : s[k] = CloseTag})
             IN  <<[filename |-> s[i].text,
                    content  |-> SubSeq(s, i + 1, j - 1)]>>
                     \o findall(s, j + 1)

\* Strategy 1: every match, in order, stored trimmed unless empty.
RECURSIVE store_matches(_, _)
store_matches(fs, matches) ==
    IF matches = <<>> THEN fs
    ELSE store_matches(
             StoreFile(fs, Head(matches).filename, Trim(Head(matches).content)),
             Tail(matches))

strategy1(s) == store_matches(<<>>, findall(s, 1))

\* text.split('\n'): the lines, without their newlines.
RECURSIVE split_lines(_)
split_lines(s) ==
    LET nls == {i \in 1..Len(s) : s[i] = Newline}
    IN  IF nls = {} THEN <<s>>
        ELSE LET i == SetMin(nls)
             IN  <<SubSeq(s, 1, i - 1)>> \o split_lines(SubSeq(s, i + 1, Len(s)))

\* '\n'.join(lines)
RECURSIVE join_lines(_)
join_lines(lines) ==
    IF lines = <<>> THEN <<>>
    ELSE IF Len(lines) = 1 THEN Head(lines)
    ELSE Head(lines) \o <<Newline>> \o join_lines(Tail(lines))

\* rest_of_line.startswith('<')
StartsWithLt(s) == s # <<>> /\ s[1].kind \in {"open", "close", "markup"}

\* "if current_file and current_content:" and what it saves.
save_current(st) ==
    IF st.current_file # <<>> /\ st.current_content # <<>>
    THEN StoreFile(st.files, st.current_file[1],
                   Trim(join_lines(st.current_content)))
    ELSE st.files

\* One turn of strategy 2's loop over the lines.
scan_line(st, line) ==
    LET opens == {i \in 1..Len(line) : line[i].kind = "open"}
    IN  IF opens # {}
        THEN LET i    == SetMin(opens)
                 rest == SubSeq(line, i + 1, Len(line))
                 kept == IF st.current_file # <<>> /\ st.current_content # <<>>
                         THEN <<>> ELSE st.current_content
             IN  [files           |-> save_current(st),
                  current_file    |-> <<line[i].text>>,
                  current_content |-> IF rest # <<>> /\ ~StartsWithLt(rest)
                                      THEN Append(kept, rest) ELSE kept]
        ELSE IF \E i \in 1..Len(line) : line[i] = CloseTag
        THEN [files           |-> save_current(st),
              current_file    |-> <<>>,
              current_content |-> <<>>]
        ELSE IF st.current_file # <<>>
        THEN [st EXCEPT !.current_content = Append(@, line)]
        ELSE st

RECURSIVE scan_lines(_, _)
scan_lines(st, lines) ==
    IF lines = <<>> THEN st
    ELSE scan_lines(scan_line(st, Head(lines)), Tail(lines))

\* Strategy 2: the line scan, and the last file saved at the end.
strategy2(s) ==
    save_current(scan_lines([files |-> <<>>, current_file |-> <<>>,
                             current_content |-> <<>>],
                            split_lines(s)))

\* Strategy 1 alone.
parse_blocks_primary_only(s) == strategy1(s)

\* The file set the two strategies give, before the defaults.
parse_blocks(s) == IF strategy1(s) = <<>> THEN strategy2(s) ELSE strategy1(s)

\* The built-in texts.
DefaultLicense == <<[kind |-> "text", text |-> "MIT License"]>>
DefaultReadme(app_name) == <<[kind |-> "readme", text |-> app_name]>>

\* The default written whether or not the file is there.
ensure_license_always(fs) == ("LICENSE" :> DefaultLicense) @@ fs

ensure_license(fs) ==
    IF "LICENSE" \notin DOMAIN fs THEN ("LICENSE" :> DefaultLicense) @@ fs ELSE fs

\* The title of index.html, if it has one.
app_name_of(fs) ==
    IF /\ "index.html" \in DOMAIN fs
       /\ \E i \in 1..Len(fs["index.html"]) : fs["index.html"][i] = TitleText
    THEN "T" ELSE "Web Application"

\* The default text added to a README.md that is there already.
ensure_readme_appending(fs) ==
    IF "README.md" \notin DOMAIN fs
    THEN ("README.md" :> DefaultReadme(app_name_of(fs))) @@ fs
    ELSE ("README.md" :> fs["README.md"] \o DefaultReadme(app_name_of(fs))) @@ fs

ensure_readme(fs) ==
    IF "README.md" \notin DOMAIN fs
    THEN ("README.md" :> DefaultReadme(app_name_of(fs))) @@ fs ELSE fs

\* The tail of the parser: LICENSE first, then README.md.
ensure_defaults(fs) == ensure_readme(ensure_license(fs))

_parse_llm_response(s) == ensure_defaults(parse_blocks(s))

\* The parser is applied to the response.
Parse ==
    /\ parser = "response"
    /\ files' = _parse_llm_response(response)
    /\ parser' = "parsed"
    /\ UNCHANGED response
    /\ UNCHANGED restOfParser

\* The parser's tail is applied once more to the file set it returned.
Reprocess ==
    /\ parser = "parsed"
    /\ files' = ensure_defaults(files)
    /\ parser' = "reprocessed"
    /\ UNCHANGED response
    /\ UNCHANGED restOfParser

(***************************************************************************)
(* push_code_to_repo and the git history it works on.  A tree maps file     *)
(* names to contents; origin is the history of the remote's main branch,   *)
(* one tree per commit, and a commit id is its place in that history.      *)
(***************************************************************************)
MaxCalls == 3

GeneratedSets ==
    {("index.html" :> "v1"), ("index.html" :> "v2"),
     ("index.html" :> "v1") @@ ("data.csv" :> "v1")}

AttachmentSets == {<<>>, ("data.csv" :> "att")}

\* POST /user/repos with auto_init: the repository starts with one commit.
InitialHistory == <<("README.md" :> "init")>>

NoCall == [pc |-> "idle", generated_files |-> <<>>, attachments |-> <<>>,
           is_update |-> FALSE, tree |-> <<>>, base |-> <<>>]

\* git rev-parse HEAD in a clone whose history is h.
rev_parse_head(h) == Len(h)

HeadTree(h) == IF h = <<>> THEN <<>> ELSE h[Len(h)]

\* The call begins: round 2 clones; round 1 asks the API for the repository
\* and clones it on a 200, or starts an empty one with git init.  A clone
\* that fails raises.
PubOpen ==
    /\ pub.pc = "idle"
    /\ Len(calls) < MaxCalls
    /\ \E g \in GeneratedSets, a \in AttachmentSets, upd \in BOOLEAN,
          how \in {"clone", "init", "raise"} :
         /\ how = "init" => ~upd
         /\ IF how = "raise"
            THEN /\ pub' = NoCall
                 /\ calls' = Append(calls, [generated_files |-> g,
                        attachments |-> a, raised |-> TRUE, sha |-> 0,
                        committed |-> FALSE, before |-> origin,
                        after |-> origin])
            ELSE /\ pub' = [pc |-> "write", generated_files |-> g,
                            attachments |-> a, is_update |-> upd,
                            base |-> IF how = "clone" THEN origin ELSE <<>>,
                            tree |-> IF how = "clone" THEN HeadTree(origin)
                                     ELSE <<>>]
                 /\ UNCHANGED calls
    /\ UNCHANGED origin
    /\ UNCHANGED restOfPublisher

\* Variant: the attachments are written before the generated files.
write_files_attachments_first(tree, generated_files, attachments) ==
    generated_files @@ attachments @@ tree

\* The two write loops over the working tree: every generated file, then
\* every attachment; a later write to a path replaces the earlier one.
write_files(tree, generated_files, attachments) ==
    attachments @@ generated_files @@ tree

\* The generated files are written, then the attachments, then git add -A.
PubWrite ==
    /\ pub.pc = "write"
    /\ pub' = [pub EXCEPT !.tree = write_files(@, pub.generated_files,
                                               pub.attachments),
                          !.pc = "diff"]
    /\ UNCHANGED <<origin, calls>>
    /\ UNCHANGED restOfPublisher

\* git diff --cached --quiet, always finding a change.
staged_diff_never_empty(p) == FALSE

\* git diff --cached --quiet returns 0: the index is the head's tree.
staged_diff_empty(p) == p.tree = HeadTree(p.base)

\* git diff --cached --quiet: with nothing staged the head's id is returned;
\* otherwise git commit.
PubCommit ==
    /\ pub.pc = "diff"
    /\ IF staged_diff_empty(pub)
       THEN /\ calls' = Append(calls, [generated_files |-> pub.generated_files,
                   attachments |-> pub.attachments, raised |-> FALSE,
                   sha |-> rev_parse_head(pub.base), committed |-> FALSE,
                   before |-> pub.base, after |-> origin])
            /\ pub' = NoCall
       ELSE /\ pub' = [pub EXCEPT !.pc = "push"]
            /\ UNCHANGED calls
    /\ UNCHANGED origin
    /\ UNCHANGED restOfPublisher

\* git push -u origin main: taken when the new commit sits on the remote's
\* head, refused otherwise; it can also fail or time out.  Then rev-parse.
PubPush ==
    /\ pub.pc = "push"
    /\ \E net_ok \in BOOLEAN :
         LET ok == net_ok /\ pub.base = origin
             h  == Append(pub.base, pub.tree)
         IN  /\ origin' = IF ok THEN h ELSE origin
             /\ calls' = Append(calls, [generated_files |-> pub.generated_files,
                    attachments |-> pub.attachments, raised |-> ~ok,
                    sha |-> IF ok THEN rev_parse_head(h) ELSE 0,
                    committed |-> TRUE, before |-> pub.base,
                    after |-> origin'])
    /\ pub' = NoCall
    /\ UNCHANGED restOfPublisher

(***************************************************************************)
(* create_github_repo and enable_github_pages against the hosting          *)
(* platform.  hub is the platform's state, shared by every caller; job[u]  *)
(* is one run of round 1's two platform calls, and two runs may be served  *)
(* by different processes, so their requests interleave.                   *)
(***************************************************************************)
Units == {"u1", "u2"}

RepoNames == {"n1", "n2"}

NoJob == [pc |-> "idle", name |-> "", repo |-> "none", pages |-> "none",
          log |-> <<>>]

\* A request answered with status st; raise ends the run.
answered(j, st, pc) == [j EXCEPT !.log = Append(@, st), !.pc = pc]

\* The same with a 422 treated like any other refusal.
after_repo_post_strict(j, st) ==
    IF st = "post201"
    THEN [answered(j, st, "pages_check") EXCEPT !.repo = "created"]
    ELSE [answered(j, st, "done") EXCEPT !.repo = "raised"]

\* What follows the answer to POST /user/repos.
after_repo_post(j, st) ==
    CASE st = "post201" ->
           [answered(j, st, "pages_check") EXCEPT !.repo = "created"]
      [] st = "post422" -> answered(j, st, "lookup")
      [] OTHER -> [answered(j, st, "done") EXCEPT !.repo = "raised"]

\* POST /user/repos: 201 when the name is free, 422 "name already exists on
\* this account" when it is not; any other answer raises.
CreatePost(u) ==
    /\ job[u].pc = "create"
    /\ \E st \in {IF job[u].name \in hub.repos THEN "post422" ELSE "post201",
                  "post500"} :
         /\ job' = [job EXCEPT ![u] = after_repo_post(@, st)]
         /\ hub' = IF st = "post201"
                   THEN [hub EXCEPT !.repos = @ \cup {job[u].name},
                                    !.made = Append(@, job[u].name)]
                   ELSE hub
    /\ UNCHANGED restOfHub

\* GET /repos/{user}/{name} after the 422: a 200 is the repository to use.
CreateLookup(u) ==
    /\ job[u].pc = "lookup"
    /\ \E st \in {"get200", "get500"} :
         job' = [job EXCEPT ![u] =
             IF st = "get200"
             THEN [answered(@, st, "pages_check") EXCEPT !.repo = "reused"]
             ELSE [answered(@, st, "done") EXCEPT !.repo = "raised"]]
    /\ UNCHANGED hub
    /\ UNCHANGED restOfHub

\* GET /repos/{owner}/{repo}/pages: 404 leads to the create request, 200 to
\* the update request, anything else raises.
PagesCheck(u) ==
    /\ job[u].pc = "pages_check"
    /\ \E st \in {IF job[u].name \in hub.pages THEN "pages_get200" ELSE "pages_get404",
                  "pages_get500"} :
         job' = [job EXCEPT ![u] =
             CASE st = "pages_get404" -> answered(@, st, "pages_create")
               [] st = "pages_get200" -> answered(@, st, "pages_update")
               [] OTHER -> [answered(@, st, "done") EXCEPT !.pages = "raised"]]
    /\ UNCHANGED hub
    /\ UNCHANGED restOfHub

\* What follows the answer to POST .../pages: 200 and 201 give the URL,
\* every other status raises.
after_pages_post(j, st) ==
    IF st \in {"pages_post200", "pages_post201"}
    THEN [answered(j, st, "done") EXCEPT !.pages = "url"]
    ELSE [answered(j, st, "done") EXCEPT !.pages = "raised"]

\* POST .../pages: the platform answers 201 and serves the site, or 409 when
\* the site is configured already.
PagesCreate(u) ==
    /\ job[u].pc = "pages_create"
    /\ \E st \in {IF job[u].name \in hub.pages THEN "pages_post409" ELSE "pages_post201",
                  "pages_post500"} :
         /\ job' = [job EXCEPT ![u] = after_pages_post(@, st)]
         /\ hub' = IF st = "pages_post201"
                   THEN [hub EXCEPT !.pages = @ \cup {job[u].name}]
                   ELSE hub
    /\ UNCHANGED restOfHub

\* PUT .../pages: 204 and 200 give the URL, anything else raises.
PagesUpdate(u) ==
    /\ job[u].pc = "pages_update"
    /\ \E st \in {"pages_put204", "pages_put200", "pages_put500"} :
         job' = [job EXCEPT ![u] =
             IF st \in {"pages_put204", "pages_put200"}
             THEN [answered(@, st, "done") EXCEPT !.pages = "url"]
             ELSE [answered(@, st, "done") EXCEPT !.pages = "raised"]]
    /\ UNCHANGED hub
    /\ UNCHANGED restOfHub

(***************************************************************************)
(* The directories a background unit works in.  A path is the sequence of  *)
(* the pieces its f-string joins; a task id that ends in "-r2" or          *)
(* "-update" is the id without the ending followed by that piece.          *)
(***************************************************************************)
Workers == {"w1", "w2"}

DirTasks == {<<"x">>, <<"x", "-r2">>, <<"x", "-update">>, <<"y">>}

\* Path(f"/tmp/llm-app-{task}") and Path(f"/tmp/llm-app-{task}-r2")
work_dir(handler, task) ==
    <<"/tmp/llm-app-">> \o task \o (IF handler = "round2" THEN <<"-r2">> ELSE <<>>)

\* clone_existing_repo and git init: Path(f"/tmp/repo-{task_id}")
repo_dir(id) == <<"/tmp/repo-">> \o id

\* The directories the handler creates, removes or writes before it awaits
\* the provider: its work_dir, and in round 2 the clone of the repository.
dirs_before_await(handler, task) ==
    {work_dir(handler, task)}
        \cup (IF handler = "round2" THEN {repo_dir(task)} ELSE {})

\* ... and after: push_code_to_repo's directory, cloned under
\* f"{task_id}-update" in round 2.
dirs_after_await(handler, task) ==
    {repo_dir(IF handler = "round2" THEN task \o <<"-update">> ELSE task)}

\* The handler runs up to its await of the provider.
DirBegin(w) ==
    /\ work[w].pc = "new"
    /\ work' = [work EXCEPT ![w].pc = "await",
                   ![w].dirs = dirs_before_await(work[w].handler, work[w].task)]
    /\ UNCHANGED restOfDirs

\* The provider has answered: the handler runs to its end.
DirResume(w) ==
    /\ work[w].pc = "await"
    /\ work' = [work EXCEPT ![w].pc = "done",
                   ![w].dirs = @ \cup dirs_after_await(work[w].handler,
                                                       work[w].task)]
    /\ UNCHANGED restOfDirs

(***************************************************************************)
(* Specifications.                                                         *)
(***************************************************************************)
GatewayInit ==
    /\ loop = Idle
    /\ req = [r \in Slots |-> NoReq]
    /\ resp = [r \in Slots |-> NoResp]
    /\ sent = [r \in Slots |-> FALSE]
    /\ unit = [r \in Slots |-> NoUnit]
    /\ effects = [r \in Slots |-> {}]
    /\ repos = {}

NameIdle ==
    /\ task_id = <<>>
    /\ r1_name = <<>>
    /\ r2_name = <<>>

ParseIdle ==
    /\ response = <<>>
    /\ files = <<>>
    /\ parser = "idle"

HubIdle ==
    /\ hub = <<>>
    /\ job = <<>>

DirIdle == work = <<>>

PubIdle ==
    /\ origin = <<>>
    /\ pub = <<>>
    /\ calls = <<>>

Init ==
    /\ student_secret \in ConfiguredSecrets
    /\ GatewayInit
    /\ NameIdle
    /\ ParseIdle
    /\ PubIdle
    /\ HubIdle
    /\ DirIdle

\* The steps of connection r's background handler.
UnitNext(r) ==
    \/ RunBackground(r)
    \/ Receive(r)
    \/ CloneExisting(r)
    \/ CallProvider(r)
    \/ ResumeProvider(r)
    \/ CreateRepo(r)
    \/ PushCode(r)
    \/ EnablePages(r)
    \/ PollPages(r)
    \/ PollSleep(r)
    \/ PollGiveUp(r)
    \/ AfterVerify(r)
    \/ PostNotification(r)
    \/ Backoff(r)
    \/ PostError(r)
    \/ Finish(r)

SlotNext(r) ==
    \/ Submit(r)
    \/ SendResponse(r)
    \/ Release(r)
    \/ UnitNext(r)

Next == \E r \in Slots : SlotNext(r)

Spec == Init /\ [][Next]_vars

\* One connection, with every started call returning or raising and the
\* event loop running what is ready.
FairNext == SlotNext("c1")

FairSpec ==
    /\ Init
    /\ [][FairNext]_vars
    /\ WF_vars(SendResponse("c1"))
    /\ WF_vars(UnitNext("c1"))

\* Name derivation: any task id, each round's derivation run once.
NameInit ==
    /\ student_secret = ""
    /\ GatewayInit
    /\ task_id \in TaskIds
    /\ r1_name = <<>>
    /\ r2_name = <<>>
    /\ ParseIdle
    /\ PubIdle
    /\ HubIdle
    /\ DirIdle

NameNext == Round1Derive \/ Round2Derive

SpecName == NameInit /\ [][NameNext]_vars

\* The parser: any response of at most MaxTokens tokens.
ParseInit ==
    /\ student_secret = ""
    /\ GatewayInit
    /\ NameIdle
    /\ response \in Responses
    /\ files = <<>>
    /\ parser = "response"
    /\ PubIdle
    /\ HubIdle
    /\ DirIdle

ParseNext == Parse \/ Reprocess

SpecParse == ParseInit /\ [][ParseNext]_vars

\* The publisher: calls of push_code_to_repo, one after the other, on a
\* repository that create_github_repo has made.
PublishInit ==
    /\ student_secret = ""
    /\ GatewayInit
    /\ NameIdle
    /\ ParseIdle
    /\ origin = InitialHistory
    /\ pub = NoCall
    /\ calls = <<>>
    /\ HubIdle
    /\ DirIdle

PublishNext == PubOpen \/ PubWrite \/ PubCommit \/ PubPush

SpecPublish == PublishInit /\ [][PublishNext]_vars

\* The hosting platform: two runs of round 1, each for a name of its own
\* choosing, on an account with no repository yet.
HubInit ==
    /\ student_secret = ""
    /\ GatewayInit
    /\ NameIdle
    /\ ParseIdle
    /\ PubIdle
    /\ hub = [repos |-> {}, made |-> <<>>, pages |-> {}]
    /\ job \in [Units -> {[NoJob EXCEPT !.pc = "create", !.name = n] :
                             n \in RepoNames}]
    /\ DirIdle

HubNext ==
    \E u \in Units :
        \/ CreatePost(u)
        \/ CreateLookup(u)
        \/ PagesCheck(u)
        \/ PagesCreate(u)
        \/ PagesUpdate(u)

SpecHub == HubInit /\ [][HubNext]_vars

\* Working directories: two units, each of either round and for any task.
DirInit ==
    /\ student_secret = ""
    /\ GatewayInit
    /\ NameIdle
    /\ ParseIdle
    /\ PubIdle
    /\ HubIdle
    /\ work \in [Workers -> {[pc |-> "new", handler |-> h, task |-> t,
                              dirs |-> {}] :
                                 h \in {"round1", "round2"}, t \in DirTasks}]

DirNext == \E w \in Workers : DirBegin(w) \/ DirResume(w)

SpecDirs == DirInit /\ [][DirNext]_vars

(***************************************************************************)
(* Properties.                                                             *)
(***************************************************************************)
\* The success-payload POSTs of u that did not get a 200.
FailedSuccessPosts(u) ==
    {i \in 1..Len(u.posts) :
        u.posts[i].kind = "success" /\ u.posts[i].outcome # "200"}

\* C1: a request with a valid secret and round 1 or 2 is answered with
\* {usercode: <its email>}, and that answer has been sent before the request's
\* background handler runs any step; it stays the same whatever the handler
\* then does and however it ends.
C1_AckBeforeBackground ==
    \A r \in Slots :
       /\ (req[r] # NoReq /\ validate_secret(req[r].secret)
              /\ req[r].round \in {1, 2})
            => resp[r] = [status |-> 200, usercode |-> req[r].email]
       /\ unit[r].pc \notin {"none", "queued"}
            => /\ sent[r]
               /\ resp[r] = [status |-> 200, usercode |-> req[r].email]

\* C1 witness: a handler that failed is about to post its error payload, long
\* after its acknowledgement went out.
C1_Witness ==
    \E r \in Slots :
       /\ unit[r].pc = "error_post"
       /\ unit[r].error = "Publishing"
       /\ sent[r]
       /\ resp[r].usercode = req[r].email

StageEdges ==
    { <<"NoTask", "Received">>, <<"Received", "Generating">>,
      <<"Generating", "Publishing">>, <<"Publishing", "Verifying">>,
      <<"Verifying", "Notifying">>, <<"Notifying", "Done">>,
      <<"Received", "Failed">>, <<"Generating", "Failed">>,
      <<"Publishing", "Failed">>, <<"Failed", "Done">>,
      <<"Done", "NoTask">> }

\* C3: a handler moves Received -> Generating -> Publishing -> Verifying ->
\* Notifying -> Done; an exception in a stage before the notification skips
\* the remaining stages, one error payload is posted (nothing else is), and
\* the handler then is Done and returns without raising, whatever the error
\* POST's outcome.
C3_StageMachine ==
    [][\A r \in Slots :
         LET a == Stage(unit[r])
             b == Stage(unit'[r])
         IN  /\ a # b => <<a, b>> \in StageEdges
             /\ (a # b /\ b = "Failed")
                  => unit'[r].error = a /\ unit'[r].posts = <<>>
             /\ (a = "Failed" /\ b = "Done")
                  => /\ Len(unit'[r].posts) = 1
                     /\ unit'[r].posts[1].kind = "error"
                     /\ ~unit'[r].raised
             /\ (a # b /\ b = "NoTask")
                  => ~unit[r].raised
             /\ (a = b /\ a = "Failed") => unit'[r] = unit[r]]_vars

\* C3 witness: a handler that failed while publishing is Done after an error
\* POST that itself failed.
C3_Witness ==
    \E r \in Slots :
       /\ unit[r].pc = "done"
       /\ unit[r].error = "Publishing"
       /\ unit[r].posts = <<[kind |-> "error", outcome |-> "neterr"]>>
       /\ ~unit[r].raised

\* C4: every scheduled handler reaches Done, having made at most
\* max_wait / interval polls and at most max_retries success POSTs, and no
\* exception leaves it.
C4_Terminates ==
    /\ [](\A r \in Slots :
            /\ ~unit[r].raised
            /\ unit[r].polls <= max_wait \div PollInterval
            /\ Len(unit[r].posts) <= max_retries)
    /\ \A r \in Slots : (unit[r].pc = "queued") ~> (unit[r].pc = "done")

\* C4 witness: Done after a deployment that never became ready and a callback
\* that failed every time.
C4_Witness ==
    /\ unit["c1"].pc = "done"
    /\ unit["c1"].ready = "False"
    /\ Cardinality(FailedSuccessPosts(unit["c1"])) = max_retries

\* C5: when every callback POST fails, the notifier has made 4 POSTs and has
\* slept 1, 2, 4 and 8, in that order, when it gives up.
C5_FourDelays ==
    \A r \in Slots :
       (/\ unit[r].pc = "done"
        /\ unit[r].error = "none"
        /\ FailedSuccessPosts(unit[r]) = 1..Len(unit[r].posts))
          => /\ Len(unit[r].posts) = 4
             /\ unit[r].sleeps = <<1, 2, 4, 8>>

\* C6: once the last success-payload POST has failed the handler is Done: it
\* has not raised, is not on the failure path, and has posted no error
\* payload.
C6_ExhaustionNotFatal ==
    \A r \in Slots :
       Cardinality(FailedSuccessPosts(unit[r])) = max_retries
          => /\ unit[r].pc = "done"
             /\ unit[r].error = "none"
             /\ ~unit[r].raised
             /\ \A i \in 1..Len(unit[r].posts) : unit[r].posts[i].kind = "success"

\* C6 witness: four success-payload POSTs, a mix of bad statuses and network
\* errors, and the handler is Done.
C6_Witness ==
    \E r \in Slots :
       /\ unit[r].pc = "done"
       /\ Len(unit[r].posts) = max_retries
       /\ unit[r].posts[1].outcome = "500"
       /\ unit[r].posts[max_retries].outcome = "neterr"

\* C7 (as stated): wait_for_pages_deployment never raises; it returns True
\* exactly when a poll returned 200 before the wait budget had elapsed, and
\* False otherwise; and after False the handler goes on to post the success
\* payload.
C7_AsStated ==
    \A r \in Slots :
       /\ unit[r].error # "Verifying"
       /\ unit[r].pc = "verified"
            => /\ unit[r].ready \in {"True", "False"}
               /\ (unit[r].ready = "True")
                     <=> (unit[r].polled_ok /\ unit[r].elapsed < max_wait)
       /\ unit[r].ready = "False"
            => /\ unit[r].pc \in {"verified", "post", "backoff", "done"}
               /\ unit[r].error = "none"
               /\ \A i \in 1..Len(unit[r].posts) :
                     unit[r].posts[i].kind = "success"
               /\ unit[r].pc = "done" => unit[r].posts # <<>>

\* C7 (amended): wait_for_pages_deployment never raises; it returns True
\* exactly when a poll begun before the wait budget had elapsed returned 200
\* (the answer may arrive up to one poll timeout after the budget), and False
\* otherwise, once the budget has elapsed; and after False the handler goes
\* on to post the success payload.
C7_VerifyNeverFatal ==
    \A r \in Slots :
       /\ unit[r].error # "Verifying"
       /\ unit[r].pc = "verified"
            => /\ unit[r].ready \in {"True", "False"}
               /\ (unit[r].ready = "True") <=> unit[r].polled_ok
               /\ unit[r].polled_ok => unit[r].elapsed < max_wait + PollTimeout
               /\ unit[r].ready = "False" => unit[r].elapsed >= max_wait
       /\ unit[r].polled_ok => unit[r].pc = "verified"
       /\ unit[r].ready = "False"
            => /\ unit[r].pc \in {"verified", "post", "backoff", "done"}
               /\ unit[r].error = "none"
               /\ \A i \in 1..Len(unit[r].posts) :
                     unit[r].posts[i].kind = "success"
               /\ unit[r].pc = "done" => unit[r].posts # <<>>

\* C7 witness: the wait returned False and the success payload was posted
\* and accepted.
C7_Witness ==
    \E r \in Slots :
       /\ unit[r].ready = "False"
       /\ unit[r].posts = <<[kind |-> "success", outcome |-> "200"]>>

\* C8: OpenAI is called first; Gemini is called exactly when OpenAI failed;
\* the files are those of the first provider that succeeded; the generation
\* error is raised exactly when both failed.
C8_ProviderFallback ==
    \A r \in Slots :
       LET u == unit[r]
       IN  /\ u.calls \in {<<>>, <<"openai">>, <<"openai", "gemini">>}
           /\ Len(u.outcomes) <= Len(u.calls)
           /\ Len(u.calls) = 2 => u.outcomes[1] = "fail"
           /\ (u.outcomes # <<>> /\ u.outcomes[1] = "fail" /\ u.pc # "fallback")
                => Len(u.calls) = 2
           /\ (u.app_code = "openai") <=> (u.outcomes = <<"ok">>)
           /\ (u.app_code = "gemini") <=> (u.outcomes = <<"fail", "ok">>)
           /\ (u.error = "Generating") <=> (u.outcomes = <<"fail", "fail">>)

\* C8 witness: OpenAI failed, Gemini's files are the result and are being
\* published.
C8_Witness ==
    \E r \in Slots :
       /\ unit[r].pc = "push"
       /\ unit[r].app_code = "gemini"
       /\ unit[r].calls = <<"openai", "gemini">>

\* C9: for every task id, the name round 2 derives when the request has no
\* repo_url equals the name round 1 derived and created the repository under.
C9_SameRepository ==
    (r1_name # <<>> /\ r2_name # <<>>) => r1_name = r2_name

(***************************************************************************)
(* The characters of a repository name.                                    *)
(***************************************************************************)
\* One hex digit of a digest: a lowercase letter or a digit, whichever the
\* hashed text makes it.
HexDigit == "h"

\* hexdigest()[:8]
DigestLen == 8

\* f"{prefix}-{digest}" as its characters.
NameChars(n) == n.prefix \o <<"-">> \o Repeat(HexDigit, DigestLen)

IsLowerAlnum(c) == c \in {"a", "1", HexDigit}

\* The hosting platform's naming constraints as the spec gives them.
ValidRepoName(s) ==
    /\ \A i \in 1..Len(s) : IsLowerAlnum(s[i]) \/ s[i] = "-"
    /\ s # <<>> => s[1] # "-" /\ s[Len(s)] # "-"
    /\ \A i \in 1..(Len(s) - 1) : ~(s[i] = "-" /\ s[i + 1] = "-")

\* C11: for every task id, the repository name derived for it is lowercase,
\* made of alphanumerics and hyphens only, neither starts nor ends with a
\* hyphen and has no two hyphens in a row.
C11_NameWellFormed ==
    r1_name # <<>> => ValidRepoName(NameChars(r1_name[1]))

(***************************************************************************)
(* Properties of the response parser.                                      *)
(***************************************************************************)
\* The places of the FILE tags of a response, in order.
TagPlaces(s) ==
    LET IsTag(i) == s[i].kind \in {"open", "close"}
    IN  SelectSeq([i \in 1..Len(s) |-> i], IsTag)

\* A response of well-formed blocks: its tags go open, close, open, close...
WellFormed(s) ==
    LET at == TagPlaces(s)
    IN  /\ Len(at) % 2 = 0
        /\ \A k \in 1..Len(at) :
               s[at[k]].kind = IF k % 2 = 1 THEN "open" ELSE "close"

\* The blocks of a well-formed response: each one's name and raw content.
Blocks(s) ==
    LET at == TagPlaces(s)
    IN  [k \in 1..(Len(at) \div 2) |->
            [name    |-> s[at[2 * k - 1]].text,
             content |-> SubSeq(s, at[2 * k - 1] + 1, at[2 * k] - 1)]]

\* C12 as the spec words it: N well-formed blocks parse into exactly N
\* entries, one per block, the block's name mapped to its trimmed content.
C12_AsStated ==
    parser = "parsed" /\ WellFormed(response) /\ Blocks(response) # <<>> =>
        LET bs == Blocks(response)
        IN  /\ Cardinality(DOMAIN files) = Len(bs)
            /\ \A k \in 1..Len(bs) :
                   /\ bs[k].name \in DOMAIN files
                   /\ files[bs[k].name] = Trim(bs[k].content)

\* Blocks a one-to-one reading can hold: different names, and content that
\* is not only whitespace.
DistinctFilled(bs) ==
    /\ \A k, l \in 1..Len(bs) : bs[k].name = bs[l].name => k = l
    /\ \A k \in 1..Len(bs) : Trim(bs[k].content) # <<>>

\* C12: N well-formed blocks with different names and content that is not
\* only whitespace parse into one entry per block, the block's name mapped to
\* its trimmed content; the file set holds nothing else but LICENSE and
\* README.md.
C12_OneEntryPerBlock ==
    parser = "parsed" /\ WellFormed(response)
                      /\ DistinctFilled(Blocks(response)) =>
        LET bs == Blocks(response)
        IN  /\ DOMAIN files = {bs[k].name : k \in 1..Len(bs)}
                                  \cup {"LICENSE", "README.md"}
            /\ \A k \in 1..Len(bs) : files[bs[k].name] = Trim(bs[k].content)

C12_Witness ==
    /\ parser = "parsed"
    /\ WellFormed(response)
    /\ DistinctFilled(Blocks(response))
    /\ Len(Blocks(response)) = 2

\* The places of the opening tags of a response.
OpenPlaces(s) == {i \in 1..Len(s) : s[i].kind = "open"}

\* The text from behind the opening tag at place i up to the next opening
\* tag, or to the end of the response.
TextBehind(s, i) ==
    LET later == {m \in OpenPlaces(s) : m > i}
    IN  SubSeq(s, i + 1, IF later = {} THEN Len(s) ELSE SetMin(later) - 1)

\* Opening tags and no closing tag: every block is left open.
Unclosed(s) ==
    /\ OpenPlaces(s) # {}
    /\ \A i \in 1..Len(s) : s[i] # CloseTag

Recoverable(s) ==
    /\ Unclosed(s)
    /\ \A i \in OpenPlaces(s) :
           /\ i = 1 \/ s[i - 1] = Newline
           /\ i = Len(s) \/ s[i + 1].kind # "markup"
           /\ Trim(TextBehind(s, i)) # <<>>
           /\ \A m \in OpenPlaces(s) : s[m].text = s[i].text => m = i

Supplying(s, n) ==
    {k \in 1..Len(Blocks(s)) :
        Blocks(s)[k].name = n /\ Trim(Blocks(s)[k].content) # <<>>}

IsDefault(n, content) ==
    IF n = "LICENSE" THEN content = DefaultLicense
    ELSE content \in {DefaultReadme("T"), DefaultReadme("Web Application")}

\* C14: whatever the response text, the file set the parser returns holds
\* LICENSE and README.md; where the response supplied one of them, the
\* supplied text is the entry, and only where it did not is the entry the
\* built-in default.
C14_LicenseAndReadme ==
    parser = "parsed" =>
        \A n \in {"LICENSE", "README.md"} :
            /\ n \in DOMAIN files
            /\ IF n \in DOMAIN parse_blocks(response)
               THEN files[n] = parse_blocks(response)[n]
               ELSE IsDefault(n, files[n])
            /\ WellFormed(response) /\ Supplying(response, n) # {} =>
                   \E k \in Supplying(response, n) :
                       /\ \A l \in Supplying(response, n) : l <= k
                       /\ files[n] = Trim(Blocks(response)[k].content)

C14_Witness ==
    /\ parser = "parsed"
    /\ WellFormed(response)
    /\ Supplying(response, "LICENSE") # {}
    /\ Supplying(response, "README.md") = {}
    /\ Supplying(response, "index.html") # {}

\* C15: the LICENSE/README.md step is idempotent: applied to the file set the
\* parser returned, it leaves that file set as it is, keys and contents.
C15_Idempotent ==
    parser = "reprocessed" => files = _parse_llm_response(response)

C15_Witness ==
    /\ parser = "reprocessed"
    /\ "index.html" \in DOMAIN files
    /\ files["LICENSE"] = DefaultLicense
    /\ files["README.md"] = DefaultReadme("T")

(***************************************************************************)
(* Properties of the publisher.                                            *)
(***************************************************************************)
\* What call c asked to be in the repository is what its head held already.
SameAsHead(c) ==
    c.before # <<>> /\
    c.attachments @@ c.generated_files @@ HeadTree(c.before) = HeadTree(c.before)

\* C16: publishing what the repository holds already is a no-op: the call
\* makes no commit, leaves the remote's history as it was and returns the id
\* of the head it found; so the second of two calls with the same content
\* returns the id the first returned.
C16_NoOpPublish ==
    /\ \A k \in 1..Len(calls) :
           ~calls[k].raised /\ SameAsHead(calls[k]) =>
               /\ ~calls[k].committed
               /\ calls[k].after = calls[k].before
               /\ calls[k].sha = Len(calls[k].before)
    /\ \A k \in 1..(Len(calls) - 1) :
           /\ ~calls[k].raised /\ ~calls[k + 1].raised
           /\ calls[k + 1].generated_files = calls[k].generated_files
           /\ calls[k + 1].attachments = calls[k].attachments
           => /\ calls[k + 1].sha = calls[k].sha
              /\ ~calls[k + 1].committed
              /\ calls[k + 1].after = calls[k].after

C16_Witness ==
    /\ Len(calls) >= 2
    /\ ~calls[1].raised /\ calls[1].committed
    /\ ~calls[2].raised
    /\ calls[2].generated_files = calls[1].generated_files
    /\ calls[2].attachments = calls[1].attachments
    /\ calls[1].attachments # <<>>

(***************************************************************************)
(* Properties of a pipeline run's commit.                                  *)
(***************************************************************************)
\* The handler of connection r has had its success payload answered 200.
SuccessDelivered(r) ==
    \E i \in 1..Len(unit[r].posts) :
        unit[r].posts[i] = [kind |-> "success", outcome |-> "200"]

\* C17 as the spec words it: a run that ends with a success notification has
\* made a commit, and the notification carries that commit's id.
C17_AsStated ==
    \A r \in Slots :
        SuccessDelivered(r) =>
            "commit" \in effects[r] /\ unit[r].commit_sha = "new"

\* C17: a run that ends with a success notification has made at most one
\* commit: either one, whose id the notification carries, or, when nothing
\* was staged, none, and the notification carries the id of the head found.
C17_CommitOrHead ==
    \A r \in Slots :
        SuccessDelivered(r) =>
            \/ "commit" \in effects[r] /\ unit[r].commit_sha = "new"
            \/ "commit" \notin effects[r] /\ unit[r].commit_sha = "head"

C17_Witness ==
    \E r \in Slots :
        /\ SuccessDelivered(r)
        /\ unit[r].handler = "round1"
        /\ "commit" \in effects[r]
        /\ unit[r].commit_sha = "new"

(***************************************************************************)
(* Properties of request validation.                                       *)
(***************************************************************************)
\* The answers that tell the client its request is malformed: the handler's
\* own HTTPException(400) and the framework's 422.
ValidationErrors == {HTTPException(400), RequestValidationError}

\* C18: a request whose round is not 1 or 2 is rejected with a validation
\* error, whatever its secret and other fields, and no background handler is
\* scheduled and nothing is done on its behalf.
C18_BadRoundRejected ==
    \A r \in Slots :
        (req[r] # NoReq /\ req[r].round \notin {1, 2})
            => /\ resp[r] \in ValidationErrors
               /\ unit[r].pc = "none"
               /\ effects[r] = {}

\* A round out of range arrives with the right secret, and one with a wrong
\* secret, and both have been answered.
C18_Witness ==
    /\ student_secret = "s3cret"
    /\ req["c1"].round = 3 /\ req["c1"].secret = "s3cret" /\ sent["c1"]
    /\ req["c2"].round = 0 /\ req["c2"].secret = "wrong" /\ sent["c2"]

(***************************************************************************)
(* Properties of the calls to the hosting platform.                        *)
(***************************************************************************)
Answers(u) == {job[u].log[i] : i \in 1..Len(job[u].log)}

ServerErrors == {"post500", "get500", "pages_get500", "pages_post500",
                 "pages_put500"}

\* C19: enable_github_pages returns the site's URL whenever hosting is
\* configured already, be it that the existence check found it (200) or
\* that another run configured it after the check said 404 and before the
\* create request (409).
C19_AlreadyConfiguredIsSuccess ==
    \A u \in Units :
        /\ job[u].pages # "none"
        /\ Answers(u) \cap {"pages_get200", "pages_post409"} # {}
        /\ Answers(u) \cap ServerErrors = {}
        => job[u].pages = "url"

\* The names hub.made holds at more than one place.
MadeTwice == {hub.made[i] : i \in {k \in 1..Len(hub.made) :
                 \E l \in 1..Len(hub.made) : l # k /\ hub.made[l] = hub.made[k]}}

\* C20: create_github_repo returns the existing repository when the name is
\* taken and creates one when it is not; it raises only when the platform
\* fails, no repository is made twice, and two runs for one name end up with
\* the one repository that one of them made.
C20_ReuseOrCreateOne ==
    /\ MadeTwice = {}
    /\ \A u \in Units :
           /\ job[u].repo = "raised" => Answers(u) \cap ServerErrors # {}
           /\ job[u].repo = "reused" =>
                  /\ job[u].log[1] = "post422"
                  /\ job[u].name \in hub.repos
           /\ job[u].repo = "created" =>
                  \E i \in 1..Len(hub.made) : hub.made[i] = job[u].name
    /\ \A u, v \in Units :
           /\ u # v /\ job[u].name = job[v].name
           /\ job[u].repo = "created"
           => job[v].repo # "created"

C20_Witness ==
    /\ job["u1"].name = job["u2"].name
    /\ job["u1"].repo = "reused"
    /\ job["u2"].repo = "created"
    /\ hub.made = <<job["u1"].name>>

(***************************************************************************)
(* Properties of the working directories.                                  *)
(***************************************************************************)
\* C21: of two units that run at the same time for different task ids, in
\* any mix of rounds, neither creates, removes or writes a directory the
\* other one uses.
C21_OwnDirectories ==
    \A v, w \in Workers :
        /\ v # w
        /\ work[v].task # work[w].task
        /\ work[v].pc = "await"
        /\ work[w].pc = "await"
        => work[v].dirs \cap work[w].dirs = {}

(***************************************************************************)
(* Properties of the callback body.                                        *)
(***************************************************************************)
\* C22: every callback POST made for a request carries that request's task
\* id, round and nonce; the success body carries besides them the
\* repository, the commit id the publisher returned and the site's URL, and
\* the error body carries an error message and none of those three.
C22_CallbackBody ==
    \A r \in Slots :
        /\ Len(unit[r].bodies) = Len(unit[r].posts)
        /\ \A i \in 1..Len(unit[r].bodies) :
               LET b == unit[r].bodies[i]
               IN  /\ b.task = req[r].task
                   /\ b.round = req[r].round
                   /\ b.nonce = req[r].nonce
                   /\ IF unit[r].posts[i].kind = "success"
                      THEN /\ "error" \notin DOMAIN b
                           /\ b.repo_url = unit[r].repo /\ b.repo_url # <<>>
                           /\ b.commit_sha = unit[r].commit_sha
                           /\ b.commit_sha \in {"new", "head"}
                           /\ b.pages_url = [site_of |-> b.repo_url]
                      ELSE /\ b.error = unit[r].error /\ b.error # "none"
                           /\ DOMAIN b \cap {"repo_url", "commit_sha",
                                             "pages_url"} = {}

\* The second connection's round-2 handler has posted its success body
\* twice, the retry carrying the same nonce, commit id and repository.
C22_Witness ==
    /\ req["c2"].round = 2 /\ Len(unit["c2"].bodies) = 2
    /\ unit["c2"].posts[2].kind = "success"
    /\ unit["c2"].bodies[2] = unit["c2"].bodies[1]
    /\ unit["c2"].bodies[2].nonce = "n2"
    /\ unit["c2"].bodies[2].commit_sha = "head"

(***************************************************************************)
(* Properties of the polling schedule.                                     *)
(***************************************************************************)
\* C23: with max_wait = 120 and an interval of 10, as long as the polls of a
\* wait take no time the next poll starts at elapsed time 10 * (polls made),
\* so at 0, 10, ..., 110 and at most 12 times; no poll starts once 120 have
\* elapsed; with such polls False is returned no later than at 120; and a
\* poll answered 200 returns True at once, without a sleep.
C23_PollSchedule ==
    [][\A r \in Slots :
          LET u == unit[r]
              v == unit'[r]
          IN  /\ (u.pc = "poll" /\ v.polls = u.polls + 1)
                    => /\ u.elapsed < max_wait
                       /\ u.instant
                            => /\ u.elapsed = PollInterval * u.polls
                               /\ u.elapsed \in {PollInterval * k : k \in 0..11}
                               /\ v.polls <= 12
                       /\ v.polled_ok
                            => /\ v.ready = "True" /\ v.pc = "verified"
                               /\ v.elapsed - u.elapsed \in PollDurations
                       /\ ~v.polled_ok => v.pc = "poll_sleep"
              /\ (u.pc = "poll" /\ v.ready = "False" /\ u.instant)
                    => u.elapsed <= max_wait /\ u.polls <= 12
              /\ (u.polled_ok /\ v.pc # u.pc)
                    => v.pc = "post" /\ v.sleeps = u.sleeps]_vars

\* A wait whose twelve polls all failed in no time has returned False at
\* 120.
C23_Witness ==
    \E r \in Slots :
       /\ unit[r].pc = "verified" /\ unit[r].ready = "False"
       /\ unit[r].instant /\ unit[r].polls = 12 /\ unit[r].elapsed = max_wait


(***************************************************************************)
(* Properties of the notification loop.                                    *)
(***************************************************************************)
\* C24: whatever the callback answers, a handler makes at most max_retries
\* POSTs; a POST of the success payload answered 200 is the handler's last
\* POST and no sleep follows it; and a POST answered otherwise, or not at
\* all, is followed by a sleep and another POST while attempts remain, so
\* that the loop ends without a 200 only after max_retries POSTs.
C24_StopAtFirstSuccess ==
    \A r \in Slots :
        LET p == unit[r].posts
            n == Len(p)
        IN  /\ n <= max_retries
            /\ \A i \in 1..n :
                  p[i].kind = "success"
                     => /\ i <= Len(unit[r].sleeps) + 1
                        /\ i < n => p[i].outcome # "200"
                        /\ (p[i].outcome = "200")
                              => /\ i = n
                                 /\ Len(unit[r].sleeps) = i - 1
                                 /\ unit[r].pc = "done"
                        /\ (p[i].outcome # "200" /\ i = n)
                              => \/ i < max_retries
                                      /\ unit[r].pc \in {"backoff", "post"}
                                      /\ unit[r].pc = "post"
                                            <=> Len(unit[r].sleeps) = i
                                 \/ i = max_retries /\ unit[r].pc = "done"
                                      /\ Len(unit[r].sleeps) = i - 1

\* The callback answered 500, then timed out, then answered 200: three
\* POSTs, two sleeps, and the loop is over.
C24_Witness ==
    \E r \in Slots :
       /\ unit[r].pc = "done"
       /\ Len(unit[r].posts) = 3
       /\ unit[r].posts[1].outcome = "500"
       /\ unit[r].posts[2].outcome = "neterr"
       /\ unit[r].posts[3] = [kind |-> "success", outcome |-> "200"]
       /\ unit[r].sleeps = <<1, 2>>


(***************************************************************************)
(* Properties of scheduling.                                               *)
(***************************************************************************)
\* C25: a submit that is answered with the acknowledgement queues one
\* handler, on its own connection and no other, and it is round1 for round 1
\* and round2 for round 2; a submit that is refused queues none; and the
\* handler that works for a request is always the one of the request's
\* round.
C25_OneHandlerOfTheRound ==
    [][\A r \in Slots :
          /\ unit[r].pc # "none"
                => unit[r].handler =
                      (IF req[r].round = 1 THEN "round1" ELSE "round2")
          /\ (req[r] = NoReq /\ req'[r] # NoReq)
                => /\ unit[r].pc = "none"
                   /\ \A q \in Slots \ {r} : unit'[q] = unit[q]
                   /\ IF resp'[r].status = 200
                      THEN /\ req'[r].round \in {1, 2}
                           /\ unit'[r] =
                                 [NoUnit EXCEPT
                                     !.pc = "queued",
                                     !.handler = IF req'[r].round = 1
                                                 THEN "round1" ELSE "round2"]
                      ELSE unit'[r] = NoUnit]_vars

\* One request for round 2 has its round2 handler queued while a request
\* for round 1 with a wrong secret was refused and has none.
C25_Witness ==
    /\ req["c1"].round = 2 /\ resp["c1"].status = 200
    /\ unit["c1"].pc = "queued" /\ unit["c1"].handler = "round2"
    /\ req["c2"].round = 1 /\ resp["c2"].status = 401
    /\ unit["c2"] = NoUnit


(***************************************************************************)
(* Properties of the order of generation and publication.                  *)
(***************************************************************************)
\* C26: a round 1 handler is at create_github_repo, push_code_to_repo or
\* enable_github_pages only with the files of a provider that succeeded;
\* when both providers have failed the handler goes to its except clause
\* with the generation error, never reaches one of the three calls, has made
\* no repository and no commit, and posts the error payload and nothing
\* else.
C26_NoRepoWithoutFiles ==
    \A r \in Slots :
        LET u == unit[r]
        IN  u.handler = "round1"
               => /\ u.pc \in {"create_repo", "push", "pages"}
                        => /\ u.outcomes # <<>>
                           /\ u.outcomes[Len(u.outcomes)] = "ok"
                           /\ u.app_code \in {"openai", "gemini"}
                           /\ u.error = "none"
                  /\ (u.repo # <<>> \/ u.commit_sha # NoUnit.commit_sha
                         \/ effects[r] \cap {"repo", "commit"} # {})
                        => "ok" \in {u.outcomes[i] : i \in 1..Len(u.outcomes)}
                  /\ u.outcomes = <<"fail", "fail">>
                        => /\ u.calls = <<"openai", "gemini">>
                           /\ u.pc \in {"error_post", "done"}
                           /\ u.error = "Generating"
                           /\ u.repo = <<>>
                           /\ u.commit_sha = NoUnit.commit_sha
                           /\ effects[r] \cap {"repo", "commit"} = {}
                           /\ u.pc = "error_post" => u.posts = <<>>
                           /\ u.pc = "done"
                                 => /\ Len(u.posts) = 1
                                    /\ u.posts[1].kind = "error"
                                    /\ u.bodies[1].error = "Generating"

\* Both providers failed for a round 1 request and its handler has posted
\* the error payload, with no repository of its own.
C26_Witness ==
    \E r \in Slots :
       /\ unit[r].handler = "round1" /\ unit[r].pc = "done"
       /\ unit[r].outcomes = <<"fail", "fail">>
       /\ Len(unit[r].posts) = 1 /\ unit[r].posts[1].kind = "error"
       /\ effects[r] = {"post"}


(***************************************************************************)
(* Properties of the written tree.                                         *)
(***************************************************************************)
\* The tree holds every attachment with its content and every generated
\* file whose path no attachment has with its content.
HoldsBoth(tree, generated_files, attachments) ==
    /\ \A f \in DOMAIN attachments :
           f \in DOMAIN tree /\ tree[f] = attachments[f]
    /\ \A f \in DOMAIN generated_files \ DOMAIN attachments :
           f \in DOMAIN tree /\ tree[f] = generated_files[f]

\* C27: push_code_to_repo writes the generated files and then the
\* attachments: the staged tree, and the tree of the commit the call makes
\* and pushes, hold the attachment's content at a path both have, and every
\* other generated file and every attachment with its content.
C27_AttachmentWins ==
    /\ pub.pc \in {"diff", "push"}
          => HoldsBoth(pub.tree, pub.generated_files, pub.attachments)
    /\ \A k \in 1..Len(calls) :
           calls[k].committed /\ ~calls[k].raised
              => /\ calls[k].after # <<>>
                 /\ HoldsBoth(calls[k].after[calls[k].sha],
                              calls[k].generated_files, calls[k].attachments)

\* A call whose generated files and attachments both have data.csv has made
\* its commit: data.csv is the attachment's and index.html the generated one.
C27_Witness ==
    \E k \in 1..Len(calls) :
       /\ calls[k].committed /\ ~calls[k].raised
       /\ "data.csv" \in DOMAIN calls[k].generated_files
       /\ "data.csv" \in DOMAIN calls[k].attachments
       /\ calls[k].attachments["data.csv"] # calls[k].generated_files["data.csv"]
       /\ HeadTree(calls[k].after)["data.csv"] = calls[k].attachments["data.csv"]
       /\ HeadTree(calls[k].after)["index.html"] = "v1"


(***************************************************************************)
(* Properties of an unconfigured secret.                                   *)
(***************************************************************************)
\* C28: with STUDENT_SECRET unset or empty, validate_secret is False for
\* every secret a request can carry, the empty one included; so every
\* request is refused, none has a handler, the event loop stays idle and
\* nothing is done for any of them.
C28_FailsClosed ==
    student_secret = ""
       => /\ \A provided_secret \in ProvidedSecrets :
                ~validate_secret(provided_secret)
          /\ loop = Idle
          /\ repos = {}
          /\ \A r \in Slots :
                /\ unit[r] = NoUnit
                /\ effects[r] = {}
                /\ req[r] # NoReq
                      => /\ resp[r].status \in {401, 422}
                         /\ req[r].round \in {1, 2}
                               => resp[r] = HTTPException(401)

\* No secret is configured and a round 1 request that carries the empty
\* secret has been answered 401.
C28_Witness ==
    /\ student_secret = ""
    /\ \E r \in Slots :
          /\ req[r].secret = "" /\ req[r].round = 1
          /\ resp[r] = HTTPException(401) /\ sent[r]


(***************************************************************************)
(* Properties of the gateway while a handler waits.                        *)
(***************************************************************************)
\* The handler is in, or about to enter, one of its blocking calls:
\* time.sleep between polls or between POSTs, a requests call, a git call.
InBlockingWait(r) ==
    /\ loop = r
    /\ unit[r].pc \in {"poll_sleep", "backoff", "poll", "post", "error_post",
                       "clone", "create_repo", "push", "pages"}

\* C29: while the handler of one request is inside a blocking wait, the
\* gateway can take a new request on another connection, and can send the
\* acknowledgement of a request it has answered: neither has to wait for
\* the handler to end its wait or to return.
C29_GatewayNotBlocked ==
    \A r \in Slots :
        InBlockingWait(r)
           => \A q \in Slots \ {r} :
                 /\ req[q] = NoReq => ENABLED Submit(q)
                 /\ (resp[q] # NoResp /\ ~sent[q]) => ENABLED SendResponse(q)

====
